---- MODULE Spec2Model ----
(***************************************************************************)
(* Model of VoteCount_bot(public).py: a Telegram conversation that         *)
(* collects a tally of votes per candidate, lets the user edit it and      *)
(* submits it to a Google Sheet keyed by region and district.              *)
(*                                                                         *)
(* A Python str is a sequence of one-character strings, a message text is  *)
(* the sequence of its lines (the text split at "\n"), a dict is a         *)
(* function whose DOMAIN is its key set.                                   *)
(***************************************************************************)
EXTENDS Integers, Sequences, FiniteSets, Bags, TLC

(***************************************************************************)
(* Characters and the str methods the handlers use.                        *)
(***************************************************************************)
UpperChars == <<"A","B","C","D","E","F","G","H","I","J","K","L","M",
                "N","O","P","Q","R","S","T","U","V","W","X","Y","Z">>
LowerChars == <<"a","b","c","d","e","f","g","h","i","j","k","l","m",
                "n","o","p","q","r","s","t","u","v","w","x","y","z">>
DigitChars == <<"0","1","2","3","4","5","6","7","8","9">>

Range(s) == {s[i] : i \in DOMAIN s}

IsLetter(c) == c \in Range(UpperChars) \cup Range(LowerChars)
IsDigit(c) == c \in Range(DigitChars)
IsSpace(c) == c \in {" ", "\t"}

LowerChar(c) ==
    IF c \in Range(UpperChars)
    THEN LowerChars[CHOOSE i \in DOMAIN UpperChars : UpperChars[i] = c]
    ELSE c

\* str.lower()
lower(s) == [i \in DOMAIN s |-> LowerChar(s[i])]

\* str.strip() of a single-line string
strip(s) ==
    LET keep == {i \in DOMAIN s : ~IsSpace(s[i])}
    IN  IF keep = {} THEN <<>>
        ELSE LET lo == CHOOSE i \in keep : \A j \in keep : i <= j
                 hi == CHOOSE i \in keep : \A j \in keep : i >= j
             IN  SubSeq(s, lo, hi)

\* str.isdigit()
isdigit(s) == Len(s) > 0 /\ \A i \in DOMAIN s : IsDigit(s[i])

DigitVal(c) == (CHOOSE i \in DOMAIN DigitChars : DigitChars[i] = c) - 1

\* int(s) for an all-digit s
RECURSIVE int(_)
int(s) == IF s = <<>> THEN 0
          ELSE 10 * int(SubSeq(s, 1, Len(s) - 1)) + DigitVal(s[Len(s)])

\* Variant that leaves the commas in.
removeCommas_keeps(s) == s

\* s.replace(",", "")
RECURSIVE removeCommas(_)
removeCommas(s) ==
    IF s = <<>> THEN <<>>
    ELSE IF Head(s) = "," THEN removeCommas(Tail(s))
         ELSE <<Head(s)>> \o removeCommas(Tail(s))

\* re.sub(r'\s+', ' ', line): every run of whitespace becomes one space
RECURSIVE collapseSpaces(_)
collapseSpaces(s) ==
    IF s = <<>> THEN <<>>
    ELSE IF IsSpace(Head(s))
         THEN IF Len(s) > 1 /\ IsSpace(s[2])
              THEN collapseSpaces(Tail(s))
              ELSE <<" ">> \o collapseSpaces(Tail(s))
         ELSE <<Head(s)>> \o collapseSpaces(Tail(s))

\* text.strip() of a whole message: blank lines at both ends go, the first
\* line loses its leading and the last line its trailing whitespace
lstrip(s) ==
    LET keep == {i \in DOMAIN s : ~IsSpace(s[i])}
    IN  IF keep = {} THEN <<>>
        ELSE SubSeq(s, CHOOSE i \in keep : \A j \in keep : i <= j, Len(s))
rstrip(s) ==
    LET keep == {i \in DOMAIN s : ~IsSpace(s[i])}
    IN  IF keep = {} THEN <<>>
        ELSE SubSeq(s, 1, CHOOSE i \in keep : \A j \in keep : i >= j)

stripText(t) ==
    LET keep == {i \in DOMAIN t : strip(t[i]) # <<>>}
    IN  IF keep = {} THEN <<>>
        ELSE LET lo == CHOOSE i \in keep : \A j \in keep : i <= j
                 hi == CHOOSE i \in keep : \A j \in keep : i >= j
             IN  [i \in 1..(hi - lo + 1) |->
                    LET l == t[lo + i - 1]
                        l1 == IF i = 1 THEN lstrip(l) ELSE l
                    IN  IF lo + i - 1 = hi THEN rstrip(l1) ELSE l1]

(***************************************************************************)
(* The catalog.                                                            *)
(***************************************************************************)
Tobias == <<"T","o","b","i","a","s">>
Chilungo == <<"C","h","i","l","u","n","g","o">>
Chakwera == <<"C","h","a","k","w","e","r","a">>
Nankhumwa == <<"N","a","n","k","h","u","m","w","a">>
Bandawe == <<"B","a","n","d","a","w","e">>
Banda == <<"B","a","n","d","a">>
Muluzi == <<"M","u","l","u","z","i">>
Kaliya == <<"K","a","l","i","y","a">>
Mutharika == <<"M","u","t","h","a","r","i","k","a">>
Mwenifumbo == <<"M","w","e","n","i","f","u","m","b","o">>
Kabambe == <<"K","a","b","a","m","b","e">>
Chibambo == <<"C","h","i","b","a","m","b","o">>
Swira == <<"S","w","i","r","a">>
Mbewe == <<"M","b","e","w","e">>
Chilumpha == <<"C","h","i","l","u","m","p","h","a">>
Chipojola == <<"C","h","i","p","o","j","o","l","a">>
Dube == <<"D","u","b","e">>

DEFAULT_CANDIDATES ==
    << Tobias, Chilungo, Chakwera, Nankhumwa, Bandawe, Banda,
       Muluzi, Kaliya, Mutharika, Mwenifumbo, Kabambe, Chibambo,
       Swira, Mbewe, Chilumpha, Chipojola, Dube >>

REGIONS == <<"Northern", "Central", "Southern">>

districts_map ==
    [r \in Range(REGIONS) |->
        CASE r = "Northern" ->
               <<"Chitipa", "Karonga", "Likoma", "Mzimba", "Nkhata Bay", "Rumphi">>
          [] r = "Central" ->
               <<"Dedza", "Dowa", "Kasungu", "Lilongwe", "Mchinji", "Nkhotakota",
                 "Ntcheu", "Ntchisi", "Salima">>
          [] r = "Southern" ->
               <<"Balaka", "Blantyre", "Chikwawa", "Chiradzulu", "Machinga",
                 "Mangochi", "Mulanje", "Mwanza", "Nsanje", "Thyolo", "Phalombe",
                 "Zomba", "Neno">>]

(***************************************************************************)
(* extract_votes                                                           *)
(***************************************************************************)
Min2(a, b) == IF a < b THEN a ELSE b

\* One row of the edit-distance table: row i from row i-1 (both 0..Len(b)).
RECURSIVE LevRow(_, _, _, _, _)
LevRow(prev, ch, b, j, acc) ==
    IF j > Len(b) THEN acc
    ELSE LET cost == IF ch = b[j] THEN 0 ELSE 1
             v == Min2(Min2(prev[j + 1] + 1, acc[j] + 1), prev[j] + cost)
         IN  LevRow(prev, ch, b, j + 1, Append(acc, v))

RECURSIVE LevRows(_, _, _, _)
LevRows(a, b, i, prev) ==
    IF i > Len(a) \/ Len(prev) # Len(b) + 1 THEN prev[Len(prev)]
    ELSE LevRows(a, b, i + 1, LevRow(prev, a[i], b, 1, <<prev[1] + 1>>))

\* Levenshtein.distance(a, b)
Levenshtein(a, b) == LevRows(a, b, 1, [j \in 1..(Len(b) + 1) |-> j - 1])

IsNameChar(c) == IsLetter(c) \/ c \in {".", "-"} \/ IsSpace(c)
IsSepChar(c) == c = ":" \/ IsSpace(c)
IsNumChar(c) == IsDigit(c) \/ c = ","

AllIn(s, lo, hi, P(_)) == \A i \in lo..hi : P(s[i])

\* re.match(r"([A-Za-z\.\-\s]+)[:\s]+([\d,]+)", line): group 1 is line[1..i],
\* the separator line[i+1..j], group 2 line[j+1..k]. The quantifiers are
\* greedy and backtrack, so the match found has the largest i, then the
\* largest j, then the largest k. The result is <<>> when nothing matches.
Splits(line) ==
    {p \in (1..Len(line)) \X (1..Len(line)) \X (1..Len(line)) :
        /\ p[1] < p[2] /\ p[2] < p[3]
        /\ AllIn(line, 1, p[1], IsNameChar)
        /\ AllIn(line, p[1] + 1, p[2], IsSepChar)
        /\ AllIn(line, p[2] + 1, p[3], IsNumChar)}

\* Groups 1 and 2 of the greedy match among the splits S of line: the split
\* with the largest i, then the largest j, then the largest k.
Groups(line, S) ==
    IF S = {} THEN <<>>
    ELSE LET p == CHOOSE x \in S :
                     \A y \in S :
                        \/ y[1] < x[1]
                        \/ y[1] = x[1] /\ y[2] < x[2]
                        \/ y[1] = x[1] /\ y[2] = x[2] /\ y[3] <= x[3]
         IN  <<SubSeq(line, 1, p[1]), SubSeq(line, p[2] + 1, p[3])>>

re_match(line) == Groups(line, Splits(line))

\* Variant whose comparison is not strict: the last entry at the minimum.
RECURSIVE best_match_last(_, _, _, _)
best_match_last(name, n, best, dmin) ==
    IF n > Len(DEFAULT_CANDIDATES) THEN <<best, dmin>>
    ELSE LET dist == Levenshtein(lower(name), lower(DEFAULT_CANDIDATES[n]))
         IN  IF dmin = -1 \/ dist <= dmin
             THEN best_match_last(name, n + 1, DEFAULT_CANDIDATES[n], dist)
             ELSE best_match_last(name, n + 1, best, dmin)

\* The loop over DEFAULT_CANDIDATES: <<best_match, min_distance>>, the first
\* catalog entry at the minimum distance (dist < min_distance is strict);
\* dmin = -1 stands for float("inf").
RECURSIVE best_match(_, _, _, _)
best_match(name, n, best, dmin) ==
    IF n > Len(DEFAULT_CANDIDATES) THEN <<best, dmin>>
    ELSE LET dist == Levenshtein(lower(name), lower(DEFAULT_CANDIDATES[n]))
         IN  IF dmin = -1 \/ dist < dmin
             THEN best_match(name, n + 1, DEFAULT_CANDIDATES[n], dist)
             ELSE best_match(name, n + 1, best, dmin)

\* d[k] = v on a dict
SetKey(d, k, v) == (k :> v) @@ d
\* del d[k]
DelKey(d, k) == [x \in DOMAIN d \ {k} |-> d[x]]
EmptyDict == [x \in {} |-> 0]

\* message texts given to extract_votes, each the sequence of its lines
ExtractTexts ==
    { << <<"B","a","n","d","a",":"," ","1">> >>,
      << <<"?","?","?">> >> }

\* lines of the texts extract_votes is called on directly: the name, the
\* separator and the number a line is written from, and the count the number
\* denotes; the line "???" has no separator and no number
ExtractLines ==
    { [name |-> Chakwera, sep |-> <<":"," ">>, number |-> <<"1","2",",","3","4","5">>,
       count |-> 12345],
      [name |-> Mutharika, sep |-> <<" ">>, number |-> <<"9","0","0","0">>,
       count |-> 9000],
      [name |-> <<"?","?","?">>, sep |-> <<>>, number |-> <<>>, count |-> 0],
      [name |-> <<"C","h","a","k","w","e","r","a","a">>, sep |-> <<":"," ">>,
       number |-> <<"5","0","0">>, count |-> 500],
      [name |-> <<"X","y","z","z","y","p","l","o","r","p">>, sep |-> <<":"," ">>,
       number |-> <<"5","0","0">>, count |-> 500],
      [name |-> <<"B","a","n","d","a","w">>, sep |-> <<":">>, number |-> <<"7">>,
       count |-> 7],
      [name |-> <<"D","U","B","E">>, sep |-> <<" ",":"," "," ">>,
       number |-> <<"0","4","1">>, count |-> 41] }
LineText(p) == p.name \o p.sep \o p.number

\* a text given to extract_votes has at most MaxLines lines
MaxLines == 3
ExtractInputs == UNION { [1..n -> ExtractLines] : n \in 0..MaxLines }

\* every line the model gives to extract_votes, as the loop body sees it
ModelLines ==
    { strip(collapseSpaces(strip(l))) :
        l \in UNION { Range(t) : t \in ExtractTexts }
                 \cup { LineText(p) : p \in ExtractLines } }

\* The match m of a line paired with the result of the loop over
\* DEFAULT_CANDIDATES on its stripped group 1 (<<>> when there is no match).
MatchOf(m) ==
    <<m, IF m = <<>> THEN <<>> ELSE best_match(strip(m[1]), 1, <<>>, -1)>>

\* MatchOf for every line of S, computed once.
RECURSIVE TableOfMatch(_)
TableOfMatch(S) ==
    IF S = {} THEN EmptyDict
    ELSE LET e == CHOOSE x \in S : TRUE
         IN  (e :> MatchOf(re_match(e))) @@ TableOfMatch(S \ {e})
Matches == TableOfMatch(ModelLines)

\* Variant of store_vote that keeps the count an entry already has.
store_keeps_first(matched, r) ==
    IF r[1] = <<>> \/ ~isdigit(strip(removeCommas(r[1][2]))) THEN matched
    ELSE IF r[2][2] <= 2 /\ r[2][1] \notin DOMAIN matched
         THEN SetKey(matched, r[2][1], int(strip(removeCommas(r[1][2]))))
         ELSE matched

\* Variant that keeps the count an entry already has.
extract_line_keeps_first(matched, raw_line) ==
    store_keeps_first(matched, Matches[strip(collapseSpaces(raw_line))])

\* The loop body from "if match:" on, for the match and the result of the
\* loop over DEFAULT_CANDIDATES: matched[best_match] = vote_count when the
\* number is all digits and min_distance <= 2.
store_vote(matched, r) ==
    IF r[1] = <<>> \/ ~isdigit(strip(removeCommas(r[1][2]))) THEN matched
    ELSE IF r[2][2] <= 2
         THEN SetKey(matched, r[2][1], int(strip(removeCommas(r[1][2]))))
         ELSE matched

\* The body of the "for line in lines" loop, applied to matched; re.match and
\* the loop over DEFAULT_CANDIDATES on raw_name are looked up in the table.
extract_line(matched, raw_line) ==
    store_vote(matched, Matches[strip(collapseSpaces(raw_line))])

RECURSIVE extract_loop(_, _, _)
extract_loop(lines, n, matched) ==
    IF n > Len(lines) THEN matched
    ELSE extract_loop(lines, n + 1, extract_line(matched, lines[n]))

\* extract_votes(text): lines that are blank after strip() are dropped first
extract_votes(text) ==
    LET lines == SelectSeq([i \in DOMAIN text |-> strip(text[i])],
                           LAMBDA l : l # <<>>)
    IN  extract_loop(lines, 1, EmptyDict)

\* extract_votes on every text of S, computed once
RECURSIVE TableOfExtract(_)
TableOfExtract(S) ==
    IF S = {} THEN EmptyDict
    ELSE LET e == CHOOSE x \in S : TRUE
         IN  (e :> extract_votes(e)) @@ TableOfExtract(S \ {e})

(***************************************************************************)
(* Conversation states, callback data and the inputs the model draws.      *)
(***************************************************************************)
CHOOSE_INPUT_MODE == "CHOOSE_INPUT_MODE"
WAIT_FOR_IMAGE == "WAIT_FOR_IMAGE"
WAIT_FOR_TEXT == "WAIT_FOR_TEXT"
EDIT_MENU == "EDIT_MENU"
BULK_EDIT_ALL == "BULK_EDIT_ALL"
EDIT_SINGLE_CANDIDATE == "EDIT_SINGLE_CANDIDATE"
ADD_CANDIDATE_NAME == "ADD_CANDIDATE_NAME"
REMOVE_CANDIDATE_NAME == "REMOVE_CANDIDATE_NAME"
SELECT_REGION == "SELECT_REGION"
SELECT_DISTRICT == "SELECT_DISTRICT"
CONFIRM_OVERRIDE == "CONFIRM_OVERRIDE"
\* ConversationHandler.END: the conversation has no state
END == "END"

States ==
    { CHOOSE_INPUT_MODE, WAIT_FOR_IMAGE, WAIT_FOR_TEXT, EDIT_MENU, BULK_EDIT_ALL,
      EDIT_SINGLE_CANDIDATE, ADD_CANDIDATE_NAME, REMOVE_CANDIDATE_NAME,
      SELECT_REGION, SELECT_DISTRICT, CONFIRM_OVERRIDE }

\* The states whose handler list holds a CallbackQueryHandler, a text
\* MessageHandler, a photo MessageHandler.
CallbackStates ==
    { CHOOSE_INPUT_MODE, EDIT_MENU, EDIT_SINGLE_CANDIDATE, REMOVE_CANDIDATE_NAME,
      SELECT_REGION, SELECT_DISTRICT, CONFIRM_OVERRIDE }
TextStates ==
    { WAIT_FOR_TEXT, BULK_EDIT_ALL, EDIT_SINGLE_CANDIDATE, ADD_CANDIDATE_NAME }
PhotoStates == { WAIT_FOR_IMAGE }

None == "None"

\* Callback data is <<prefix, rest>>, the string prefix + rest, where prefix is
\* the one of "edit_", "remove_", "region_", "district_" the data starts with
\* ("" when it starts with none); rest is then what data.replace(prefix, "")
\* leaves. The rest of an edit_/remove_ token is a name (a str).
individual == <<"i","n","d","i","v","i","d","u","a","l">>
candidate == <<"c","a","n","d","i","d","a","t","e">>
Zed == <<"Z","e","d">>

Plain(name) == <<"", name>>
IsPlain(data, name) == data[1] = "" /\ data[2] = name
startswith(data, prefix) == data[1] = prefix

\* "edit_individual" and "remove_candidate", the EDIT_MENU tokens that start
\* with the prefixes of the tokens of the two selection menus
edit_individual == <<"edit_", individual>>
remove_candidate == <<"remove_", candidate>>
IsEditIndividual(data) == data[1] = "edit_" /\ data[2] = individual
IsRemoveCandidate(data) == data[1] = "remove_" /\ data[2] = candidate

Users == {"u1", "u2"}
OneUser == {"u1"}

\* names that selection tokens carry, regions and districts that tokens carry
InputNames == {Banda, Zed}
InputRegions == {"Northern", "Central"}
InputDistricts == {"Chitipa", "Dedza"}

MenuTokens ==
    { Plain("mode_image"), Plain("mode_text"), Plain("cancel"),
      Plain("bulk_edit"), edit_individual, Plain("add_candidate"),
      remove_candidate, Plain("submit_votes"), Plain("back_edit_menu"),
      Plain("back_to_regions"), Plain("override_yes"), Plain("override_no") }

Tokens ==
    MenuTokens
      \cup {<<"edit_", n>> : n \in InputNames}
      \cup {<<"remove_", n>> : n \in InputNames}
      \cup {<<"region_", r>> : r \in InputRegions}
      \cup {<<"district_", d>> : d \in InputDistricts}

\* callback data sent where no CallbackQueryHandler is registered: the cancel
\* token and one other
DroppedTokens == {Plain("cancel"), Plain("submit_votes")}

\* what the sheet holds when the bot starts: one of the districts, not the other
InitialSheet == {"Chitipa"}

\* message texts, each the sequence of its lines
BulkTexts ==
    { << <<"B","a","n","d","a",":"," ","2">>, <<"B","a","d","l","i","n","e">>,
         <<"Z","e","d",":","1">> >>,
      << <<"B","a","d","l","i","n","e">> >> }
VoteTexts == { << <<"3">> >>, << <<"x","7">> >>, << <<"-","2">> >> }
NameTexts == { << <<"Z","e","d">> >>, << <<"B","a","n","d","a">> >>, << <<" ">> >> }

\* the lines of a text joined back into one str
RECURSIVE join(_)
join(t) == IF t = <<>> THEN <<>>
           ELSE IF Len(t) = 1 THEN t[1]
           ELSE t[1] \o <<"\n">> \o join(Tail(t))

\* d.lower() on a district name
lowerDistrict(d) ==
    CASE d = "Chitipa" -> "chitipa"
      [] d = "Dedza" -> "dedza"
      [] OTHER -> d

\* at most MaxInFlight handlers are suspended at a time, and at most MaxEvents
\* updates are dispatched in all
MaxInFlight == 2
MaxEvents == 8
ObjIds == 1..(Cardinality(Users) + 1)

(***************************************************************************)
(* State.                                                                  *)
(***************************************************************************)
VARIABLES
    conversations,  \* ConversationHandler: user -> state (END: no conversation)
    user_sessions,  \* the dict user_sessions: DOMAIN is the users with a session
    heap,           \* the tally dicts, by object identity
    inflight,       \* bag of handlers suspended on an external call
    sheet,          \* districts for which the Google Sheet holds data
    sent,           \* per user: payloads posted to the sheet since the last /start
    nevents,        \* updates dispatched so far
    concurrent,     \* whether the Application processes updates concurrently
    extraction,     \* a call of extract_votes: its text and what it returned
    last            \* what the most recent handler step did

vars == <<conversations, user_sessions, heap, inflight, sheet, sent, nevents,
          concurrent, extraction, last>>

Referenced(us) == {us[u].candidates : u \in DOMAIN us}

\* a new dict object: an identity no session refers to
Alloc(us) == CHOOSE o \in ObjIds \ Referenced(us) :
                \A p \in ObjIds \ Referenced(us) : o <= p

\* objects no session refers to any more are garbage
Collect(h, us) == [o \in ObjIds |-> IF o \in Referenced(us) THEN h[o] ELSE EmptyDict]

HasSession(u) == u \in DOMAIN user_sessions
Tally(u) == heap[user_sessions[u].candidates]

\* user_sessions.pop(user_id, None)
Pop(us, u) == [v \in DOMAIN us \ {u} |-> us[v]]

\* what a user's session holds (or that there is none)
View(u) ==
    IF HasSession(u)
    THEN <<TRUE, Tally(u), user_sessions[u].region, user_sessions[u].district,
           user_sessions[u].candidate_to_edit>>
    ELSE <<FALSE>>

InFlightOf(u) == {t \in BagToSet(inflight) : t.u = u}
Task(u, pc, district, votes) ==
    [u |-> u, pc |-> pc, district |-> district, votes |-> votes]
CanSuspend == BagCardinality(inflight) < MaxInFlight

\* the record of a handler step: the event it handles, what it did, the user,
\* the state the event was dispatched in, whether the event was valid there,
\* whether the step changed the conversation state or the session, and for a
\* post to the sheet whether the sheet held data for the district and whether
\* the user had confirmed the override
Note(event, kind, u, class, held, confirmed) ==
    last' = [event |-> event, kind |-> kind, u |-> u, from |-> conversations[u],
             class |-> class,
             changed |-> (conversations'[u] # conversations[u]) \/ (View(u)' # View(u)),
             held |-> held, confirmed |-> confirmed, text |-> None]

\* the record of a step of bulk_edit_all_handler, with update.message.text
NoteText(kind, u, class, text) ==
    last' = [event |-> "text", kind |-> kind, u |-> u, from |-> conversations[u],
             class |-> class,
             changed |-> (conversations'[u] # conversations[u]) \/ (View(u)' # View(u)),
             held |-> FALSE, confirmed |-> FALSE, text |-> text]

\* the record of a step of receive_photo_handler after ocr_image has returned
\* text and extract_votes has been called on it
NoteResume(kind, u, class, text) ==
    last' = [event |-> "resume", kind |-> kind, u |-> u, from |-> conversations[u],
             class |-> class,
             changed |-> (conversations'[u] # conversations[u]) \/ (View(u)' # View(u)),
             held |-> FALSE, confirmed |-> FALSE, text |-> text]

TypeOK ==
    /\ conversations \in [Users -> States \cup {END}]
    /\ DOMAIN user_sessions \subseteq Users
    /\ DOMAIN heap = ObjIds
    /\ sheet \subseteq InputDistricts
    /\ sent \in [Users -> Nat]
    /\ nevents \in 0..MaxEvents
    /\ concurrent \in BOOLEAN
    /\ BagCardinality(inflight) <= MaxInFlight

\* everything but the way the Application dispatches
Start ==
    /\ conversations = [u \in Users |-> END]
    /\ user_sessions = [u \in {} |-> 0]
    /\ heap = [o \in ObjIds |-> EmptyDict]
    /\ inflight = EmptyBag
    /\ sheet = InitialSheet
    /\ sent = [u \in Users |-> 0]
    /\ nevents = 0
    /\ last = [event |-> "init", kind |-> "init", u |-> None, from |-> END, class |-> "other",
               changed |-> FALSE, held |-> FALSE, confirmed |-> FALSE, text |-> None]

\* no call of extract_votes outside a handler
NoExtraction == [lines |-> <<>>, applied |-> FALSE, matched |-> EmptyDict]

\* Application.builder().token(BOT_TOKEN).build() leaves concurrent_updates at
\* its default: an update is processed to the end of its handler before the
\* next one is fetched
Init == Start /\ concurrent = FALSE /\ extraction = NoExtraction

\* the Application built with concurrent_updates: while a handler awaits an
\* external call the updates that arrive meanwhile are dispatched
InitConcurrent == Start /\ concurrent = TRUE /\ extraction = NoExtraction

\* extract_votes about to be called on a text of at most MaxLines lines
InitExtract ==
    /\ Start /\ concurrent = FALSE
    /\ extraction \in { [lines |-> t, applied |-> FALSE, matched |-> EmptyDict] :
                           t \in ExtractInputs }

\* the handler returns new_state: ConversationHandler stores it
Return(u, new_state) == conversations' = [conversations EXCEPT ![u] = new_state]

\* the session store and the heap after a step
Store(us, h) == user_sessions' = us /\ heap' = Collect(h, us)
SameStore == UNCHANGED <<user_sessions, heap>>

(***************************************************************************)
(* What the branches of the handlers have in common.                       *)
(***************************************************************************)
Rest == UNCHANGED <<inflight, sheet, sent>>

\* an update of user u is dispatched to a handler
Dispatch(u) ==
    /\ IF concurrent THEN TRUE ELSE inflight = EmptyBag
    /\ nevents < MaxEvents
    /\ nevents' = nevents + 1
    /\ UNCHANGED <<concurrent, extraction>>

\* return a state without touching the session
Goto(u, new_state) == Return(u, new_state) /\ SameStore /\ Rest

\* Variant of the "cancel" branch that pops the session and keeps the state.
Cancel_keeps_state(u) ==
    Store(Pop(user_sessions, u), heap) /\ UNCHANGED conversations /\ Rest

\* the "cancel" branch: user_sessions.pop(user_id, None); return END
Cancel(u) == Store(Pop(user_sessions, u), heap) /\ Return(u, END) /\ Rest

\* user_sessions[user_id] with no such key: the handler dies with KeyError,
\* Application logs it and the conversation keeps its state
KeyError(event, u) ==
    /\ UNCHANGED <<conversations, user_sessions, heap, inflight, sheet, sent>>
    /\ Note(event, "KeyError", u, "other", FALSE, FALSE)

\* the handler awaits an external call: it is suspended, other updates are
\* dispatched meanwhile, and the conversation keeps its state until it returns
Suspend(t) == CanSuspend /\ inflight' = inflight (+) SetToBag({t})
Resume(t) ==
    /\ BagIn(t, inflight)
    /\ inflight' = inflight (-) SetToBag({t})
    /\ UNCHANGED <<nevents, concurrent, extraction>>

\* user_sessions[u][field] = value
SetField(u, field, value) ==
    Store([user_sessions EXCEPT ![u] = [user_sessions[u] EXCEPT ![field] = value]], heap)

\* user_sessions[u]["candidates"] = votes, votes a new dict
SetCandidates(u, votes) ==
    LET o == Alloc(user_sessions)
    IN  Store([user_sessions EXCEPT ![u].candidates = o], [heap EXCEPT ![o] = votes])

\* a change of the dict user_sessions[u]["candidates"] in place
Mutate(u, tally) ==
    Store(user_sessions, [heap EXCEPT ![user_sessions[u].candidates] = tally])

TokEvent(data) == IF IsPlain(data, "cancel") THEN "cancel_token" ELSE "token"

\* the event of a handler going on after an external call: whether the call
\* gave its result or failed (ocr_image returns None, get_submitted_districts
\* returns [] from its except branch)
ResumeEvent(ok) == IF ok THEN "resume" ELSE "resume_failed"

(***************************************************************************)
(* Entry point and fallbacks.                                              *)
(***************************************************************************)
\* start with the new session pointing at one shared default tally
start_shared_tally(u) ==
    LET o == 1
        session == [candidates |-> o, region |-> None, district |-> None,
                    votes_confirmed |-> FALSE, candidate_to_edit |-> <<>>]
        us == [v \in DOMAIN user_sessions \cup {u} |->
                  IF v = u THEN session ELSE user_sessions[v]]
        h == [heap EXCEPT ![o] = [c \in Range(DEFAULT_CANDIDATES) |-> 0]]
    IN  /\ Dispatch(u)
        /\ Store(us, h)
        /\ Return(u, CHOOSE_INPUT_MODE)
        /\ sent' = [sent EXCEPT ![u] = 0]
        /\ UNCHANGED <<inflight, sheet>>
        /\ Note("start", "start", u, "valid", FALSE, FALSE)

\* start that resets the tally of an existing session and keeps the rest
start_keeps_location(u) ==
    LET o == Alloc(Pop(user_sessions, u))
        session == IF HasSession(u)
                   THEN [user_sessions[u] EXCEPT !.candidates = o]
                   ELSE [candidates |-> o, region |-> None, district |-> None,
                         votes_confirmed |-> FALSE, candidate_to_edit |-> <<>>]
        us == [v \in DOMAIN user_sessions \cup {u} |->
                  IF v = u THEN session ELSE user_sessions[v]]
        h == [heap EXCEPT ![o] = [c \in Range(DEFAULT_CANDIDATES) |-> 0]]
    IN  /\ Dispatch(u)
        /\ Store(us, h)
        /\ Return(u, CHOOSE_INPUT_MODE)
        /\ sent' = [sent EXCEPT ![u] = 0]
        /\ UNCHANGED <<inflight, sheet>>
        /\ Note("start", "start", u, "valid", FALSE, FALSE)

\* start: the entry point; allow_reentry makes it match in every state
start(u) ==
    LET o == Alloc(Pop(user_sessions, u))
        session == [candidates |-> o, region |-> None, district |-> None,
                    votes_confirmed |-> FALSE, candidate_to_edit |-> <<>>]
        us == [v \in DOMAIN user_sessions \cup {u} |->
                  IF v = u THEN session ELSE user_sessions[v]]
        h == [heap EXCEPT ![o] = [c \in Range(DEFAULT_CANDIDATES) |-> 0]]
    IN  /\ Dispatch(u)
        /\ Store(us, h)
        /\ Return(u, CHOOSE_INPUT_MODE)
        /\ sent' = [sent EXCEPT ![u] = 0]
        /\ UNCHANGED <<inflight, sheet>>
        /\ Note("start", "start", u, "valid", FALSE, FALSE)

\* cancel_handler that ends the conversation and leaves the session
cancel_handler_keeps_session(u) ==
    /\ Dispatch(u)
    /\ conversations[u] # END
    /\ Goto(u, END)
    /\ Note("cancel_command", "cancel", u, "valid", FALSE, FALSE)

\* cancel_handler: the /cancel command, a fallback of every state
cancel_handler(u) ==
    /\ conversations[u] # END
    /\ Dispatch(u)
    /\ Cancel(u)
    /\ Note("cancel_command", "cancel", u, "valid", FALSE, FALSE)

\* fallback_handler: any other command
fallback_handler(u) ==
    /\ conversations[u] # END
    /\ Dispatch(u)
    /\ Goto(u, END)
    /\ Note("command", "fallback", u, "other", FALSE, FALSE)

\* An update that no handler of the current state, entry point or fallback
\* matches is dropped by ConversationHandler: a callback query where the state
\* has no CallbackQueryHandler, a text or a photo where it has no such
\* MessageHandler, anything but /start when there is no conversation.
unhandled_callback(u, data) ==
    /\ conversations[u] \notin CallbackStates
    /\ Dispatch(u)
    /\ UNCHANGED <<conversations, user_sessions, heap, inflight, sheet, sent>>
    /\ Note(TokEvent(data), "unhandled", u, "invalid", FALSE, FALSE)

unhandled_message(u, event) ==
    /\ Dispatch(u)
    /\ \/ event = "text" /\ conversations[u] \notin TextStates
       \/ event = "photo" /\ conversations[u] \notin PhotoStates
       \/ event \in {"command", "cancel_command"} /\ conversations[u] = END
    /\ UNCHANGED <<conversations, user_sessions, heap, inflight, sheet, sent>>
    /\ Note(event, "unhandled", u, "invalid", FALSE, FALSE)

(***************************************************************************)
(* Input mode, recognition and extraction.                                 *)
(***************************************************************************)
choose_input_mode_handler(u, data) ==
    /\ conversations[u] = CHOOSE_INPUT_MODE
    /\ Dispatch(u)
    /\ IF IsPlain(data, "mode_image")
       THEN Goto(u, WAIT_FOR_IMAGE) /\ Note("token", "ok", u, "valid", FALSE, FALSE)
       ELSE IF IsPlain(data, "mode_text")
       THEN Goto(u, WAIT_FOR_TEXT) /\ Note("token", "ok", u, "valid", FALSE, FALSE)
       ELSE IF IsPlain(data, "cancel")
       THEN Cancel(u) /\ Note("cancel_token", "cancel", u, "valid", FALSE, FALSE)
       ELSE Goto(u, CHOOSE_INPUT_MODE)
            /\ Note("token", "reprompt", u, "invalid", FALSE, FALSE)

\* receive_photo_handler up to "text = await ocr_image(photo_url)"
receive_photo_handler(u) ==
    /\ conversations[u] = WAIT_FOR_IMAGE
    /\ Dispatch(u)
    /\ Suspend(Task(u, "ocr_image", None, None))
    /\ UNCHANGED <<conversations, user_sessions, heap, sheet, sent>>
    /\ Note("photo", "suspend", u, "valid", FALSE, FALSE)

\* extract_votes on the texts the model draws
ExtractedVotes == TableOfExtract(ExtractTexts)

\* what ocr_image returns: None (here the empty text) or the parsed text
OcrResults == {<<>>} \cup ExtractTexts

\* Variant that asks for another photo when the recognised text gives no votes.
receive_photo_resume_retries(u, text) ==
    /\ Resume(Task(u, "ocr_image", None, None))
    /\ UNCHANGED <<sheet, sent>>
    /\ IF text = <<>>
       THEN /\ Return(u, WAIT_FOR_IMAGE) /\ SameStore
            /\ Note(ResumeEvent(FALSE), "ocr_failed", u, "other", FALSE, FALSE)
       ELSE LET votes == ExtractedVotes[text]
            IN  IF votes = EmptyDict
                THEN /\ Return(u, WAIT_FOR_IMAGE) /\ SameStore
                     /\ NoteResume("no_votes", u, "other", text)
                ELSE IF ~HasSession(u)
                THEN /\ UNCHANGED <<conversations, user_sessions, heap>>
                     /\ NoteResume("KeyError", u, "other", text)
                ELSE /\ SetCandidates(u, votes) /\ Return(u, EDIT_MENU)
                     /\ NoteResume("ok", u, "valid", text)

\* receive_photo_handler from the return of ocr_image on
receive_photo_resume(u, text) ==
    /\ Resume(Task(u, "ocr_image", None, None))
    /\ UNCHANGED <<sheet, sent>>
    /\ IF text = <<>>
       THEN /\ Return(u, WAIT_FOR_IMAGE) /\ SameStore
            /\ Note(ResumeEvent(FALSE), "ocr_failed", u, "other", FALSE, FALSE)
       ELSE LET votes == ExtractedVotes[text]
            IN  IF votes = EmptyDict
                THEN /\ Return(u, WAIT_FOR_TEXT) /\ SameStore
                     /\ NoteResume("no_votes", u, "other", text)
                ELSE IF ~HasSession(u)
                THEN /\ UNCHANGED <<conversations, user_sessions, heap>>
                     /\ NoteResume("KeyError", u, "other", text)
                ELSE /\ SetCandidates(u, votes) /\ Return(u, EDIT_MENU)
                     /\ NoteResume("ok", u, "valid", text)

receive_text_handler(u, text) ==
    /\ conversations[u] = WAIT_FOR_TEXT
    /\ Dispatch(u)
    /\ LET votes == ExtractedVotes[text]
       IN  IF votes = EmptyDict
           THEN Goto(u, WAIT_FOR_TEXT)
                /\ NoteText("reprompt", u, "invalid", text)
           ELSE IF ~HasSession(u)
           THEN /\ UNCHANGED <<conversations, user_sessions, heap, inflight, sheet, sent>>
                /\ NoteText("KeyError", u, "other", text)
           ELSE /\ SetCandidates(u, votes) /\ Return(u, EDIT_MENU) /\ Rest
                /\ NoteText("ok", u, "valid", text)

(***************************************************************************)
(* The editing flow.                                                       *)
(***************************************************************************)
\* the body of edit_menu_handler, which edit_single_candidate_handler and
\* remove_candidate_name_handler also call for "back_edit_menu"
edit_menu_body(u, data) ==
    IF IsPlain(data, "bulk_edit")
    THEN Goto(u, BULK_EDIT_ALL) /\ Note("token", "ok", u, "valid", FALSE, FALSE)
    ELSE IF IsEditIndividual(data)
    THEN IF ~HasSession(u) THEN KeyError("token", u)
         ELSE Goto(u, EDIT_SINGLE_CANDIDATE)
              /\ Note("token", "ok", u, "valid", FALSE, FALSE)
    ELSE IF IsPlain(data, "add_candidate")
    THEN Goto(u, ADD_CANDIDATE_NAME) /\ Note("token", "ok", u, "valid", FALSE, FALSE)
    ELSE IF IsRemoveCandidate(data)
    THEN IF ~HasSession(u) THEN KeyError("token", u)
         ELSE Goto(u, REMOVE_CANDIDATE_NAME)
              /\ Note("token", "ok", u, "valid", FALSE, FALSE)
    ELSE IF IsPlain(data, "submit_votes")
    THEN Goto(u, SELECT_REGION) /\ Note("token", "ok", u, "valid", FALSE, FALSE)
    ELSE IF IsPlain(data, "back_edit_menu")
    THEN IF ~HasSession(u) THEN KeyError("token", u)
         ELSE Goto(u, EDIT_MENU) /\ Note("token", "back", u, "valid", FALSE, FALSE)
    ELSE IF IsPlain(data, "cancel")
    THEN Cancel(u) /\ Note("cancel_token", "cancel", u, "valid", FALSE, FALSE)
    ELSE Goto(u, EDIT_MENU) /\ Note("token", "reprompt", u, "invalid", FALSE, FALSE)

edit_menu_handler(u, data) ==
    /\ conversations[u] = EDIT_MENU
    /\ Dispatch(u)
    /\ edit_menu_body(u, data)

\* line.split(':', 1): <<>> when ':' is not in the line
split_colon(line) ==
    LET at == {i \in DOMAIN line : line[i] = ":"}
    IN  IF at = {} THEN <<>>
        ELSE LET i == CHOOSE x \in at : \A y \in at : x <= y
             IN  <<SubSeq(line, 1, i - 1), SubSeq(line, i + 1, Len(line))>>

\* the loop of bulk_edit_all_handler that builds new_votes
RECURSIVE bulk_parse(_, _, _)
bulk_parse(lines, n, new_votes) ==
    IF n > Len(lines) THEN new_votes
    ELSE LET parts == split_colon(lines[n])
         IN  IF parts = <<>> \/ ~isdigit(strip(parts[2]))
             THEN bulk_parse(lines, n + 1, new_votes)
             ELSE bulk_parse(lines, n + 1,
                             SetKey(new_votes, strip(parts[1]), int(strip(parts[2]))))

\* d.update(e)
update(d, e) == e @@ d

\* Variant that assigns new_votes as the tally instead of merging it.
bulk_edit_all_handler_replaces(u, text) ==
    /\ conversations[u] = BULK_EDIT_ALL
    /\ Dispatch(u)
    /\ LET new_votes == bulk_parse(stripText(text), 1, EmptyDict)
       IN  IF new_votes = EmptyDict
           THEN Goto(u, BULK_EDIT_ALL)
                /\ NoteText("reprompt", u, "invalid", text)
           ELSE IF ~HasSession(u) THEN KeyError("text", u)
           ELSE /\ Mutate(u, new_votes)
                /\ Return(u, EDIT_MENU) /\ Rest
                /\ NoteText("ok", u, "valid", text)

bulk_edit_all_handler(u, text) ==
    /\ conversations[u] = BULK_EDIT_ALL
    /\ Dispatch(u)
    /\ LET new_votes == bulk_parse(stripText(text), 1, EmptyDict)
       IN  IF new_votes = EmptyDict
           THEN Goto(u, BULK_EDIT_ALL)
                /\ NoteText("reprompt", u, "invalid", text)
           ELSE IF ~HasSession(u) THEN KeyError("text", u)
           ELSE /\ Mutate(u, update(Tally(u), new_votes))
                /\ Return(u, EDIT_MENU) /\ Rest
                /\ NoteText("ok", u, "valid", text)

edit_single_candidate_handler(u, data) ==
    /\ conversations[u] = EDIT_SINGLE_CANDIDATE
    /\ Dispatch(u)
    /\ IF startswith(data, "edit_")
       THEN IF ~HasSession(u) THEN KeyError("token", u)
            ELSE /\ SetField(u, "candidate_to_edit", data[2])
                 /\ Return(u, EDIT_SINGLE_CANDIDATE) /\ Rest
                 /\ Note("token", "target",  u,
                         IF data[2] \in DOMAIN Tally(u) THEN "valid" ELSE "invalid",
                         FALSE, FALSE)
       ELSE IF IsPlain(data, "back_edit_menu") THEN edit_menu_body(u, data)
       ELSE IF IsPlain(data, "cancel")
       THEN Cancel(u) /\ Note("cancel_token", "cancel", u, "valid", FALSE, FALSE)
       ELSE Goto(u, EDIT_SINGLE_CANDIDATE)
            /\ Note("token", "reprompt", u, "invalid", FALSE, FALSE)

\* Variant that parses a signed integer instead of requiring isdigit().
receive_single_candidate_vote_signed(u, text) ==
    /\ conversations[u] = EDIT_SINGLE_CANDIDATE
    /\ Dispatch(u)
    /\ IF ~HasSession(u) THEN KeyError("text", u)
       ELSE LET target == user_sessions[u].candidate_to_edit
                count == join(stripText(text))
                signed == Len(count) > 1 /\ count[1] = "-" /\ isdigit(Tail(count))
            IN  IF target = <<>>
                THEN Goto(u, EDIT_MENU)
                     /\ Note("text", "no_target", u, "invalid", FALSE, FALSE)
                ELSE IF ~isdigit(count) /\ ~signed
                THEN Goto(u, EDIT_SINGLE_CANDIDATE)
                     /\ Note("text", "reprompt", u, "invalid", FALSE, FALSE)
                ELSE /\ Store([user_sessions EXCEPT ![u].candidate_to_edit = <<>>],
                              [heap EXCEPT ![user_sessions[u].candidates] =
                                  SetKey(Tally(u), target,
                                         IF signed THEN 0 - int(Tail(count))
                                                   ELSE int(count))])
                     /\ Return(u, EDIT_MENU) /\ Rest
                     /\ Note("text", "ok", u, "valid", FALSE, FALSE)

receive_single_candidate_vote(u, text) ==
    /\ conversations[u] = EDIT_SINGLE_CANDIDATE
    /\ Dispatch(u)
    /\ IF ~HasSession(u) THEN KeyError("text", u)
       ELSE LET target == user_sessions[u].candidate_to_edit
                count == join(stripText(text))
            IN  IF target = <<>>
                THEN Goto(u, EDIT_MENU)
                     /\ Note("text", "no_target", u, "invalid", FALSE, FALSE)
                ELSE IF ~isdigit(count)
                THEN Goto(u, EDIT_SINGLE_CANDIDATE)
                     /\ Note("text", "reprompt", u, "invalid", FALSE, FALSE)
                ELSE /\ Store([user_sessions EXCEPT ![u].candidate_to_edit = <<>>],
                              [heap EXCEPT ![user_sessions[u].candidates] =
                                  SetKey(Tally(u), target, int(count))])
                     /\ Return(u, EDIT_MENU) /\ Rest
                     /\ Note("text", "ok", u, "valid", FALSE, FALSE)

add_candidate_name_handler(u, text) ==
    /\ conversations[u] = ADD_CANDIDATE_NAME
    /\ Dispatch(u)
    /\ LET new_name == join(stripText(text))
       IN  IF new_name = <<>>
           THEN Goto(u, ADD_CANDIDATE_NAME)
                /\ Note("text", "reprompt", u, "invalid", FALSE, FALSE)
           ELSE IF ~HasSession(u) THEN KeyError("text", u)
           ELSE IF new_name \in DOMAIN Tally(u)
           THEN Goto(u, ADD_CANDIDATE_NAME)
                /\ Note("text", "reprompt", u, "invalid", FALSE, FALSE)
           ELSE /\ Mutate(u, SetKey(Tally(u), new_name, 0))
                /\ Return(u, EDIT_MENU) /\ Rest
                /\ Note("text", "ok", u, "valid", FALSE, FALSE)

remove_candidate_name_handler(u, data) ==
    /\ conversations[u] = REMOVE_CANDIDATE_NAME
    /\ Dispatch(u)
    /\ IF startswith(data, "remove_")
       THEN IF ~HasSession(u) THEN KeyError("token", u)
            ELSE IF data[2] \in DOMAIN Tally(u)
            THEN /\ Mutate(u, DelKey(Tally(u), data[2]))
                 /\ Return(u, EDIT_MENU) /\ Rest
                 /\ Note("token", "ok", u, "valid", FALSE, FALSE)
            ELSE Goto(u, EDIT_MENU)
                 /\ Note("token", "not_found", u, "invalid", FALSE, FALSE)
       ELSE IF IsPlain(data, "back_edit_menu") THEN edit_menu_body(u, data)
       ELSE IF IsPlain(data, "cancel")
       THEN Cancel(u) /\ Note("cancel_token", "cancel", u, "valid", FALSE, FALSE)
       ELSE Goto(u, REMOVE_CANDIDATE_NAME)
            /\ Note("token", "reprompt", u, "invalid", FALSE, FALSE)

(***************************************************************************)
(* Region and district selection, submission.                              *)
(***************************************************************************)
\* what get_submitted_districts returns: the lowered names of the districts
\* the sheet holds data for, or [] when the request fails
get_submitted_districts(ok) ==
    IF ok THEN {lowerDistrict(d) : d \in sheet} ELSE {}

\* what send_to_google_sheet returns: the sheet's answer, with success true
\* once it has stored the payload, or the error dict of a failed request
SendResults == {"success", "failure", "error"}

\* submit_data up to "result = await send_to_google_sheet(payload)"; bag holds
\* the other handlers in flight
submit_data(event, u, confirmed, bag) ==
    IF ~HasSession(u)
    THEN /\ Return(u, END) /\ SameStore /\ inflight' = bag
         /\ UNCHANGED <<sheet, sent>>
         /\ Note(event, "expired", u, "other", FALSE, FALSE)
    ELSE LET votes == Tally(u)
             region == user_sessions[u].region
             district == user_sessions[u].district
         IN  IF region = None \/ district = None \/ votes = EmptyDict
             THEN /\ Return(u, END) /\ SameStore /\ inflight' = bag
                  /\ UNCHANGED <<sheet, sent>>
                  /\ Note(event, "incomplete", u, "valid", FALSE, FALSE)
             ELSE /\ BagCardinality(bag) < MaxInFlight
                  /\ inflight' = bag (+) SetToBag({Task(u, "send_to_google_sheet",
                                                        district, votes)})
                  /\ sent' = [sent EXCEPT ![u] = @ + 1]
                  /\ UNCHANGED <<conversations, user_sessions, heap, sheet>>
                  /\ Note(event, "send", u, "valid",
                          lowerDistrict(district) \in get_submitted_districts(TRUE),
                          confirmed)

SubmitKind(result) ==
    CASE result = "success" -> "submitted"
      [] result = "failure" -> "submit_failed"
      [] result = "error" -> "submit_error"

\* submit_resume with the session dropped only after a successful post
submit_resume_keeps_on_failure(u, district, result) ==
    /\ \E t \in InFlightOf(u) :
           t.pc = "send_to_google_sheet" /\ t.district = district /\ Resume(t)
    /\ sheet' = IF result = "success" THEN sheet \cup {district} ELSE sheet
    /\ IF result = "success" THEN Store(Pop(user_sessions, u), heap) ELSE SameStore
    /\ Return(u, END)
    /\ UNCHANGED sent
    /\ Note("resume", SubmitKind(result), u, "valid", FALSE, FALSE)

\* submit_data from the return of send_to_google_sheet on; the sheet holds
\* the payload when it answers with success
submit_resume(u, district, result) ==
    /\ \E t \in InFlightOf(u) :
           t.pc = "send_to_google_sheet" /\ t.district = district /\ Resume(t)
    /\ sheet' = IF result = "success" THEN sheet \cup {district} ELSE sheet
    /\ Store(Pop(user_sessions, u), heap)
    /\ Return(u, END)
    /\ UNCHANGED sent
    /\ Note("resume", SubmitKind(result), u, "valid", FALSE, FALSE)

\* select_region_handler up to "await get_submitted_districts()"
select_region_handler(u, data) ==
    /\ conversations[u] = SELECT_REGION
    /\ Dispatch(u)
    /\ IF startswith(data, "region_")
       THEN IF ~HasSession(u) THEN KeyError("token", u)
            ELSE /\ SetField(u, "region", data[2])
                 /\ Suspend(Task(u, "select_region", None, None))
                 /\ UNCHANGED <<conversations, sheet, sent>>
                 /\ Note("token", "suspend", u, "valid", FALSE, FALSE)
       ELSE IF IsPlain(data, "cancel")
       THEN Cancel(u) /\ Note("cancel_token", "cancel", u, "valid", FALSE, FALSE)
       ELSE Goto(u, SELECT_REGION)
            /\ Note("token", "reprompt", u, "invalid", FALSE, FALSE)

select_region_resume(u, ok) ==
    /\ Resume(Task(u, "select_region", None, None))
    /\ Return(u, SELECT_DISTRICT) /\ SameStore
    /\ UNCHANGED <<sheet, sent>>
    /\ Note(ResumeEvent(ok), "ok", u, "valid", FALSE, FALSE)

\* select_district_handler up to its "await get_submitted_districts()"
select_district_handler(u, data) ==
    /\ conversations[u] = SELECT_DISTRICT
    /\ Dispatch(u)
    /\ IF startswith(data, "district_")
       THEN IF ~HasSession(u) THEN KeyError("token", u)
            ELSE /\ SetField(u, "district", data[2])
                 /\ Suspend(Task(u, "select_district", data[2], None))
                 /\ UNCHANGED <<conversations, sheet, sent>>
                 /\ Note("token", "suspend", u, "valid", FALSE, FALSE)
       ELSE IF IsPlain(data, "back_to_regions")
       THEN Goto(u, SELECT_REGION) /\ Note("token", "back", u, "valid", FALSE, FALSE)
       ELSE IF IsPlain(data, "cancel")
       THEN Cancel(u) /\ Note("cancel_token", "cancel", u, "valid", FALSE, FALSE)
       ELSE IF ~HasSession(u) THEN KeyError("token", u)
       ELSE /\ Suspend(Task(u, "select_district_else", None, None))
            /\ UNCHANGED <<conversations, user_sessions, heap, sheet, sent>>
            /\ Note("token", "suspend", u, "invalid", FALSE, FALSE)

\* Variant that looks the district up without lowering it.
select_district_resume_exact(u, district, ok) ==
    /\ BagIn(Task(u, "select_district", district, None), inflight)
    /\ UNCHANGED <<nevents, concurrent, extraction>>
    /\ IF district \in get_submitted_districts(ok)
       THEN /\ Return(u, CONFIRM_OVERRIDE) /\ SameStore
            /\ inflight' = inflight (-) SetToBag({Task(u, "select_district", district, None)})
            /\ UNCHANGED <<sheet, sent>>
            /\ Note(ResumeEvent(ok), "ask_override", u, "valid", FALSE, FALSE)
       ELSE submit_data(ResumeEvent(ok), u, FALSE,
                        inflight (-) SetToBag({Task(u, "select_district", district, None)}))

\* the district_ branch from the return of get_submitted_districts on
select_district_resume(u, district, ok) ==
    /\ BagIn(Task(u, "select_district", district, None), inflight)
    /\ UNCHANGED <<nevents, concurrent, extraction>>
    /\ IF lowerDistrict(district) \in get_submitted_districts(ok)
       THEN /\ Return(u, CONFIRM_OVERRIDE) /\ SameStore
            /\ inflight' = inflight (-) SetToBag({Task(u, "select_district", district, None)})
            /\ UNCHANGED <<sheet, sent>>
            /\ Note(ResumeEvent(ok), "ask_override", u, "valid", FALSE, FALSE)
       ELSE submit_data(ResumeEvent(ok), u, FALSE,
                        inflight (-) SetToBag({Task(u, "select_district", district, None)}))

\* the else branch from the return of get_submitted_districts on
select_district_else_resume(u, ok) ==
    /\ Resume(Task(u, "select_district_else", None, None))
    /\ Return(u, SELECT_DISTRICT) /\ SameStore
    /\ UNCHANGED <<sheet, sent>>
    /\ Note(ResumeEvent(ok), "reprompt", u, "invalid", FALSE, FALSE)

\* the event of a token in CONFIRM_OVERRIDE: the two answers, or TokEvent
OverrideEvent(data) ==
    IF IsPlain(data, "override_yes") THEN "override_yes"
    ELSE IF IsPlain(data, "override_no") THEN "override_no"
    ELSE TokEvent(data)

\* Variant whose override_no branch drops the session as "cancel" does.
confirm_override_handler_no_drops(u, data) ==
    /\ conversations[u] = CONFIRM_OVERRIDE
    /\ Dispatch(u)
    /\ IF IsPlain(data, "override_yes")
       THEN submit_data(OverrideEvent(data), u, TRUE, inflight)
       ELSE IF IsPlain(data, "override_no")
       THEN /\ Suspend(Task(u, "override_no", None, None))
            /\ Store(Pop(user_sessions, u), heap)
            /\ UNCHANGED <<conversations, sheet, sent>>
            /\ Note(OverrideEvent(data), "suspend", u, "valid", FALSE, FALSE)
       ELSE Goto(u, CONFIRM_OVERRIDE)
            /\ Note(OverrideEvent(data), "reprompt", u, "invalid", FALSE, FALSE)

confirm_override_handler(u, data) ==
    /\ conversations[u] = CONFIRM_OVERRIDE
    /\ Dispatch(u)
    /\ IF IsPlain(data, "override_yes")
       THEN submit_data(OverrideEvent(data), u, TRUE, inflight)
       ELSE IF IsPlain(data, "override_no")
       THEN /\ Suspend(Task(u, "override_no", None, None))
            /\ UNCHANGED <<conversations, user_sessions, heap, sheet, sent>>
            /\ Note(OverrideEvent(data), "suspend", u, "valid", FALSE, FALSE)
       ELSE Goto(u, CONFIRM_OVERRIDE)
            /\ Note(OverrideEvent(data), "reprompt", u, "invalid", FALSE, FALSE)

\* the override_no branch from the return of get_submitted_districts on
confirm_override_resume(u, ok) ==
    /\ Resume(Task(u, "override_no", None, None))
    /\ UNCHANGED <<sheet, sent>>
    /\ IF ~HasSession(u)
       THEN /\ UNCHANGED <<conversations, user_sessions, heap>>
            /\ Note(ResumeEvent(ok), "KeyError", u, "other", FALSE, FALSE)
       ELSE /\ Return(u, SELECT_DISTRICT) /\ SameStore
            /\ Note(ResumeEvent(ok), "ok", u, "valid", FALSE, FALSE)

(***************************************************************************)
(* The specification.                                                      *)
(***************************************************************************)
\* one update of user u is dispatched, or one suspended handler of u resumes
Step(u) ==
        \/ start(u)
        \/ cancel_handler(u)
        \/ fallback_handler(u)
        \/ \E data \in DroppedTokens : unhandled_callback(u, data)
        \/ \E event \in {"text", "photo", "command", "cancel_command"} :
              unhandled_message(u, event)
        \/ \E data \in Tokens : choose_input_mode_handler(u, data)
        \/ receive_photo_handler(u)
        \/ \E text \in OcrResults : receive_photo_resume(u, text)
        \/ \E text \in ExtractTexts : receive_text_handler(u, text)
        \/ \E data \in Tokens : edit_menu_handler(u, data)
        \/ \E text \in BulkTexts : bulk_edit_all_handler(u, text)
        \/ \E data \in Tokens : edit_single_candidate_handler(u, data)
        \/ \E text \in VoteTexts : receive_single_candidate_vote(u, text)
        \/ \E text \in NameTexts : add_candidate_name_handler(u, text)
        \/ \E data \in Tokens : remove_candidate_name_handler(u, data)
        \/ \E data \in Tokens : select_region_handler(u, data)
        \/ \E ok \in BOOLEAN : select_region_resume(u, ok)
        \/ \E data \in Tokens : select_district_handler(u, data)
        \/ \E d \in InputDistricts, ok \in BOOLEAN : select_district_resume(u, d, ok)
        \/ \E ok \in BOOLEAN : select_district_else_resume(u, ok)
        \/ \E data \in Tokens : confirm_override_handler(u, data)
        \/ \E ok \in BOOLEAN : confirm_override_resume(u, ok)
        \/ \E d \in InputDistricts, r \in SendResults : submit_resume(u, d, r)

\* one user, the bot as it is built
Next == \E u \in OneUser : Step(u)
Spec == Init /\ [][Next]_vars

\* one user, updates processed concurrently
NextConcurrent == \E u \in OneUser : Step(u)
SpecConcurrent == InitConcurrent /\ [][NextConcurrent]_vars

\* several users, updates processed concurrently
NextUsers == \E u \in Users : Step(u)
SpecUsers == InitConcurrent /\ [][NextUsers]_vars

\* matched = extract_votes(text), text being the lines written from their parts
ExtractVotes ==
    /\ ~extraction.applied
    /\ extraction' =
          [extraction EXCEPT
             !.applied = TRUE,
             !.matched = extract_votes([i \in DOMAIN extraction.lines |->
                                          LineText(extraction.lines[i])])]
    /\ UNCHANGED <<conversations, user_sessions, heap, inflight, sheet, sent,
                   nevents, concurrent, last>>

\* extract_votes alone, on every text of ExtractInputs
NextExtract == ExtractVotes
SpecExtract == InitExtract /\ [][NextExtract]_vars

(***************************************************************************)
(* Properties.                                                             *)
(***************************************************************************)
Acted == last.u

\* C1: the sheet never receives a payload for a district it already holds
\* data for unless the user answered override_yes for it, whatever the
\* already-submitted query returned.
C1_OverwriteProtection ==
    (last.kind = "send" /\ last.held) => last.confirmed

\* the states whose handler has a "cancel" branch
CancelTokenStates ==
    { CHOOSE_INPUT_MODE, EDIT_MENU, EDIT_SINGLE_CANDIDATE, REMOVE_CANDIDATE_NAME,
      SELECT_REGION, SELECT_DISTRICT }

Cancelled == conversations[Acted] = END /\ ~HasSession(Acted)

\* C2 as stated: from each of the 11 states both the /cancel command and the
\* "cancel" token end the conversation and remove the session.
C2_CancelFromEveryState ==
    (last.event \in {"cancel_command", "cancel_token"} /\ last.from \in States)
        => Cancelled

\* C2 as amended: the /cancel command ends the conversation and removes the
\* session from each of the 11 states; the "cancel" token does so in the six
\* states whose handler has a cancel branch, and in the other five it leaves
\* the conversation state and the session as they are.
C2_CancelAccepted ==
    /\ (last.event = "cancel_command" /\ last.from \in States) => Cancelled
    /\ (last.event = "cancel_token" /\ last.from \in CancelTokenStates) => Cancelled
    /\ (last.event = "cancel_token" /\ last.from \in States \ CancelTokenStates)
          => (~last.changed /\ conversations[Acted] = last.from)

\* C2 witness: /cancel arrived in CONFIRM_OVERRIDE and took the session away
C2_Witness ==
    /\ last.event = "cancel_command" /\ last.from = CONFIRM_OVERRIDE
    /\ last.changed /\ Cancelled

\* C3: an event that is not valid in the state it arrives in changes neither
\* the conversation state nor the session's tally, region, district and
\* edit target.
C3_InvalidEventChangesNothing ==
    last.class = "invalid" => ~last.changed

C6_IncompleteTearsDown ==
    last.kind = "incomplete" => Cancelled

C8_CrossUserIsolation ==
    /\ [](\A u, v \in DOMAIN user_sessions :
             u # v => user_sessions[u].candidates # user_sessions[v].candidates)
    /\ [][\A u \in Users : u # last'.u => View(u)' = View(u)]_vars

\* C8 witness: both users hold a session, a handler of u2 is suspended on an
\* external call and a step of u1 changed u1's session
C8_Witness ==
    /\ DOMAIN user_sessions = Users
    /\ InFlightOf("u2") # {}
    /\ last.u = "u1" /\ last.kind = "ok" /\ last.changed

\* C9: when the fallback handler has ended the conversation the user has no
\* session.
C9_FallbackDestroysSession ==
    last.kind = "fallback" => ~HasSession(Acted)

\* C10: after /start, in whatever state it arrived, the session is a fresh
\* one and the conversation is in CHOOSE_INPUT_MODE.
C10_StartIsFresh ==
    last.kind = "start" =>
        /\ conversations[Acted] = CHOOSE_INPUT_MODE
        /\ HasSession(Acted)
        /\ Tally(Acted) = [c \in Range(DEFAULT_CANDIDATES) |-> 0]
        /\ user_sessions[Acted].region = None
        /\ user_sessions[Acted].district = None
        /\ user_sessions[Acted].candidate_to_edit = <<>>
        /\ user_sessions[Acted].votes_confirmed = FALSE

\* C10 witness: /start arrived in SELECT_DISTRICT, with a region chosen
C10_Witness ==
    last.kind = "start" /\ last.from = SELECT_DISTRICT /\ last.changed

\* C11: in every reachable state, whatever extraction, bulk edit, single
\* edit, add and remove operations came before, every count stored in
\* every session's tally is an integer >= 0.
C11_CountsNonNegative ==
    \A u \in Users :
        HasSession(u) =>
            \A name \in DOMAIN Tally(u) : Tally(u)[name] \in Nat

\* A single edit has just stored a positive count next to the others.
C11_Witness ==
    /\ last.event = "text" /\ last.kind = "ok"
    /\ last.from = EDIT_SINGLE_CANDIDATE
    /\ HasSession(last.u)
    /\ \E name \in DOMAIN Tally(last.u) : Tally(last.u)[name] = 3

\* C12: a session's region, once set, is one of the catalog regions, and
\* its district, once set, belongs to the district list of the region
\* stored in the same session, also after "back to regions", after a
\* declined override and for tokens of earlier menus.
C12_DistrictBelongsToRegion ==
    \A u \in Users :
        HasSession(u) =>
            LET region == user_sessions[u].region
                district == user_sessions[u].district
            IN  /\ region # None => region \in Range(REGIONS)
                /\ district # None =>
                       /\ region \in Range(REGIONS)
                       /\ district \in Range(districts_map[region])

\* what submit_data requires before it posts: a session with a region, a
\* district and a tally that is not empty
Complete(u) ==
    /\ HasSession(u)
    /\ user_sessions[u].region # None /\ user_sessions[u].district # None
    /\ Tally(u) # EmptyDict

\* C13: when the district chosen in SELECT_DISTRICT is in the set that
\* get_submitted_districts returned for that choice, the conversation moves
\* to CONFIRM_OVERRIDE and nothing is posted; when it is not in that set the
\* handler goes straight into submit_data, which posts the session's payload
\* if the session is complete.
C13_OverrideGate ==
    [][\A t \in BagToSet(inflight) :
          (t.pc = "select_district" /\ CopiesIn(t, inflight') < CopiesIn(t, inflight))
          => IF lowerDistrict(t.district)
                    \in get_submitted_districts(last'.event # "resume_failed")
             THEN /\ last'.kind = "ask_override"
                  /\ conversations'[t.u] = CONFIRM_OVERRIDE
                  /\ sent' = sent
                  /\ BagCardinality(inflight') < BagCardinality(inflight)
             ELSE /\ last'.kind \in {"send", "incomplete", "expired"}
                  /\ (last'.kind = "send") <=> Complete(t.u)
                  /\ IF last'.kind = "send"
                     THEN /\ sent'[t.u] = sent[t.u] + 1
                          /\ BagIn(Task(t.u, "send_to_google_sheet",
                                        user_sessions[t.u].district, Tally(t.u)),
                                   inflight')
                     ELSE sent' = sent]_vars

\* C13 witness: the chosen district was in the fetched set and the user is
\* asked to confirm, nothing having been posted.
C13_Witness ==
    /\ last.kind = "ask_override" /\ last.event = "resume"
    /\ conversations[last.u] = CONFIRM_OVERRIDE
    /\ sent[last.u] = 0

\* C14: in CONFIRM_OVERRIDE the answer override_yes posts the session's
\* tally for the session's district, which is the district the user was asked
\* about; the answer override_no queries the submitted districts again,
\* returns to SELECT_DISTRICT, posts nothing and leaves the session as it is.
C14_OverrideAnswers ==
    /\ [](\A u \in Users :
            conversations[u] = CONFIRM_OVERRIDE /\ inflight = EmptyBag
            => /\ HasSession(u)
               /\ lowerDistrict(user_sessions[u].district)
                      \in get_submitted_districts(TRUE))
    /\ [][\A u \in Users :
            /\ (last'.u = u /\ last'.event = "override_yes") =>
                  (/\ last'.from = CONFIRM_OVERRIDE
                   /\ IF Complete(u)
                      THEN /\ last'.kind = "send" /\ last'.confirmed
                           /\ sent'[u] = sent[u] + 1
                           /\ BagIn(Task(u, "send_to_google_sheet",
                                         user_sessions[u].district, Tally(u)),
                                    inflight')
                      ELSE last'.kind = "incomplete" /\ sent' = sent)
            /\ (last'.u = u /\ last'.event = "override_no") =>
                  (/\ last'.kind = "suspend"
                   /\ sent' = sent
                   /\ conversations' = conversations
                   /\ View(u)' = View(u))
            /\ \A t \in InFlightOf(u) :
                  (t.pc = "override_no" /\ CopiesIn(t, inflight') < CopiesIn(t, inflight))
                  => /\ conversations'[u] = SELECT_DISTRICT
                     /\ sent' = sent
                     /\ inflight' = EmptyBag
                     /\ HasSession(u)
                     /\ View(u)' = View(u)]_vars

\* C14 witness: the user said no, the query has returned and the
\* conversation is back in SELECT_DISTRICT with the session intact.
C14_Witness ==
    /\ last.from = CONFIRM_OVERRIDE /\ last.kind = "ok"
    /\ last.event \in {"resume", "resume_failed"}
    /\ conversations[last.u] = SELECT_DISTRICT
    /\ Complete(last.u)
    /\ sent[last.u] = 0

\* C16: when the recognition service or the already-submitted-districts
\* query fails, the handler that awaited it ends the conversation and
\* removes the user's session.
C16_ExternalFailureAborts ==
    last.event = "resume_failed" => Cancelled

\* what a line of a bulk text names: <<name, count>> for a line "name:count"
\* whose count is all digits, name and count taken without surrounding
\* blanks, and nothing for a line of any other shape
NamedByLine(line) ==
    { <<strip(SubSeq(line, 1, i - 1)), int(strip(SubSeq(line, i + 1, Len(line))))>> :
        i \in { j \in DOMAIN line :
                  /\ line[j] = ":"
                  /\ \A k \in 1..(j - 1) : line[k] # ":"
                  /\ isdigit(strip(SubSeq(line, j + 1, Len(line)))) } }

\* the names a bulk text gives a count to, and the count the text gives a
\* name (that of the last line naming it)
NamedBy(text) == { p[1] : p \in UNION { NamedByLine(text[i]) : i \in DOMAIN text } }
CountBy(text, name) ==
    LET at == { i \in DOMAIN text : \E p \in NamedByLine(text[i]) : p[1] = name }
        n == CHOOSE i \in at : \A j \in at : j <= i
    IN  (CHOOSE p \in NamedByLine(text[n]) : p[1] = name)[2]

\* C19: a text sent in BULK_EDIT_ALL sets the tally entry of every literal
\* name that a "name:count" line with an all-digit count gives (creating it
\* if absent, no fuzzy matching), skips lines of any other shape, keeps every
\* entry the text does not name and returns to EDIT_MENU; a text with no such
\* line leaves the tally as it is and the state BULK_EDIT_ALL.
C19_BulkEditMerges ==
    [][\A u \in Users :
          (/\ last'.u = u /\ last'.event = "text"
           /\ last'.from = BULK_EDIT_ALL /\ last'.text # None) =>
             LET named == NamedBy(last'.text)
             IN  IF named = {}
                 THEN /\ conversations'[u] = BULK_EDIT_ALL
                      /\ View(u)' = View(u)
                 ELSE /\ HasSession(u)
                      /\ conversations'[u] = EDIT_MENU
                      /\ DOMAIN Tally(u)' = DOMAIN Tally(u) \cup named
                      /\ \A name \in named :
                            Tally(u)'[name] = CountBy(last'.text, name)
                      /\ \A name \in DOMAIN Tally(u) \ named :
                            Tally(u)'[name] = Tally(u)[name]]_vars

\* C19 witness: a bulk text has set Banda and created Zed, and an entry it
\* does not name is still there.
C19_Witness ==
    /\ last.from = BULK_EDIT_ALL /\ last.kind = "ok" /\ last.text # None
    /\ conversations[last.u] = EDIT_MENU
    /\ HasSession(last.u)
    /\ {Banda, Zed} \subseteq DOMAIN Tally(last.u)
    /\ Tally(last.u)[Banda] = 2 /\ Tally(last.u)[Zed] = 1
    /\ DOMAIN Tally(last.u) # {Banda, Zed}
    /\ <<"B","a","d","l","i","n","e">> \notin DOMAIN Tally(last.u)

\* C20: in EDIT_SINGLE_CANDIDATE choosing an entity sets the edit target and
\* keeps the state; an integer text then overwrites the count of that
\* entity, which is a key of the tally, changes no other entry, adds no key,
\* clears the target and returns to EDIT_MENU; a text that is no integer
\* leaves the tally, the target and the state as they are.
C20_TwoPhaseEdit ==
    [][\A u \in Users :
          (last'.u = u /\ last'.from = EDIT_SINGLE_CANDIDATE) =>
             /\ (last'.kind = "target") =>
                   (/\ conversations'[u] = EDIT_SINGLE_CANDIDATE
                    /\ user_sessions'[u].candidate_to_edit # <<>>
                    /\ Tally(u)' = Tally(u))
             /\ (last'.event = "text" /\ last'.kind = "ok") =>
                   (/\ user_sessions[u].candidate_to_edit \in DOMAIN Tally(u)
                    /\ DOMAIN Tally(u)' = DOMAIN Tally(u)
                    /\ \A name \in DOMAIN Tally(u) :
                          IF name = user_sessions[u].candidate_to_edit
                          THEN Tally(u)'[name] \in Nat
                          ELSE Tally(u)'[name] = Tally(u)[name]
                    /\ user_sessions'[u].candidate_to_edit = <<>>
                    /\ conversations'[u] = EDIT_MENU)
             /\ (last'.event = "text" /\ last'.kind = "reprompt") =>
                   (/\ conversations'[u] = EDIT_SINGLE_CANDIDATE
                    /\ View(u)' = View(u))]_vars

\* the distances of a name to the catalog entries, case ignored, in catalog order
RECURSIVE Distances(_, _)
Distances(name, n) ==
    IF n = 0 THEN <<>>
    ELSE Append(Distances(name, n - 1),
                Levenshtein(lower(name), lower(DEFAULT_CANDIDATES[n])))

\* the catalog entry a name resolves to: the first entry in catalog order at
\* the minimum distance when that distance is at most 2, None otherwise
Nearest(name) ==
    LET D == Distances(name, Len(DEFAULT_CANDIDATES))
        n == CHOOSE i \in DOMAIN D :
                /\ \A j \in DOMAIN D : D[i] <= D[j]
                /\ \A j \in 1..(i - 1) : D[j] > D[i]
    IN  IF D[n] <= 2 THEN DEFAULT_CANDIDATES[n] ELSE None

RECURSIVE TableOfNearest(_)
TableOfNearest(S) ==
    IF S = {} THEN EmptyDict
    ELSE LET e == CHOOSE x \in S : TRUE
         IN  (e :> Nearest(e)) @@ TableOfNearest(S \ {e})
NearestOf == TableOfNearest({ p.name : p \in ExtractLines })

\* a line "name: digits" or "name digits": a name of letters, a separator of
\* colons and blanks, a number of digits and thousands separators
WellFormed(p) ==
    /\ p.name # <<>> /\ \A i \in DOMAIN p.name : IsLetter(p.name[i])
    /\ p.sep # <<>> /\ \A i \in DOMAIN p.sep : p.sep[i] \in {":", " "}
    /\ \E i \in DOMAIN p.number : IsDigit(p.number[i])
    /\ \A i \in DOMAIN p.number : IsDigit(p.number[i]) \/ p.number[i] = ","

\* the lines of the text of the call that extract_votes is to accept
Accepted(lines) ==
    { i \in DOMAIN lines : WellFormed(lines[i]) /\ NearestOf[lines[i].name] # None }

\* C15: for a text made only of well-formed "name: digits" lines whose name
\* is within distance 2 of a catalog entry, extract_votes returns a dict
\* whose keys are exactly the entries the names resolve to and whose counts
\* are the numbers of the lines with the thousands separators removed; and
\* "Chakwera: 12,345\nMutharika 9000\n???" gives {Chakwera: 12345,
\* Mutharika: 9000}.
C15_ExtractWellFormed ==
    extraction.applied =>
        LET lines == extraction.lines
            matched == extraction.matched
        IN  /\ Accepted(lines) = DOMAIN lines =>
                 /\ DOMAIN matched = { NearestOf[lines[i].name] : i \in DOMAIN lines }
                 /\ \A e \in DOMAIN matched :
                       \E i \in DOMAIN lines :
                          /\ NearestOf[lines[i].name] = e
                          /\ matched[e] = lines[i].count
            /\ [i \in DOMAIN lines |-> LineText(lines[i])]
                   = << <<"C","h","a","k","w","e","r","a",":"," ","1","2",",","3","4","5">>,
                        <<"M","u","t","h","a","r","i","k","a"," ","9","0","0","0">>,
                        <<"?","?","?">> >>
                 => matched = (Chakwera :> 12345) @@ (Mutharika :> 9000)

\* C15 witness: extract_votes has returned for two well-formed lines, one
\* with a thousands separator and one with a blank as separator.
C15_Witness ==
    /\ extraction.applied
    /\ Len(extraction.lines) = 2
    /\ Accepted(extraction.lines) = {1, 2}
    /\ extraction.matched = (Chakwera :> 12345) @@ (Mutharika :> 9000)

\* C17: extract_votes resolves the name of a line to the catalog entry at the
\* minimum case-insensitive Levenshtein distance, the first in catalog order
\* when several entries are at the minimum, and accepts the line only if that
\* distance is at most 2; a line at a larger distance contributes nothing
\* ("Chakweraa: 500" gives Chakwera = 500, "Xyzzyplorp: 500" gives nothing).
C17_NearestEntryWithin2 ==
    (extraction.applied /\ Len(extraction.lines) = 1) =>
        LET p == extraction.lines[1]
            matched == extraction.matched
        IN  /\ WellFormed(p) =>
                  IF Nearest(p.name) = None THEN matched = EmptyDict
                  ELSE matched = (Nearest(p.name) :> p.count)
            /\ LineText(p) = <<"C","h","a","k","w","e","r","a","a",":"," ","5","0","0">>
                  => matched = (Chakwera :> 500)
            /\ LineText(p) = <<"X","y","z","z","y","p","l","o","r","p",":"," ","5","0","0">>
                  => matched = EmptyDict

\* C17 witness: a name at distance 1 of both Bandawe and Banda has been
\* resolved to Bandawe, which comes first in the catalog.
C17_Witness ==
    /\ extraction.applied /\ Len(extraction.lines) = 1
    /\ extraction.lines[1].name = <<"B","a","n","d","a","w">>
    /\ extraction.matched = (Bandawe :> 7)

\* C18: when several accepted lines of one call resolve to the same catalog
\* entry the dict returned holds one entry for it, with the count of the last
\* of these lines, and every other entry has the count of its own last line.
C18_LastLineWins ==
    extraction.applied =>
        LET lines == extraction.lines
            matched == extraction.matched
            of(e) == { i \in Accepted(lines) : NearestOf[lines[i].name] = e }
        IN  \A e \in { NearestOf[lines[i].name] : i \in Accepted(lines) } :
               /\ e \in DOMAIN matched
               /\ matched[e] = lines[CHOOSE i \in of(e) : \A j \in of(e) : j <= i].count

\* C18 witness: two lines have resolved to Chakwera, the second with 500,
\* and a line for Mutharika stands between them.
C18_Witness ==
    /\ extraction.applied /\ Len(extraction.lines) = 3
    /\ extraction.lines[1].name = Chakwera /\ extraction.lines[1].count = 12345
    /\ extraction.lines[2].name = Mutharika
    /\ extraction.lines[3].count = 500
    /\ extraction.matched = (Chakwera :> 500) @@ (Mutharika :> 9000)

\* C21: when extract_votes returns an empty dict for the text sent in
\* WAIT_FOR_TEXT, or for the text ocr_image recognised in the photo sent in
\* WAIT_FOR_IMAGE, the handler returns WAIT_FOR_TEXT and leaves the session as
\* it is; when it returns a non-empty dict the handler returns EDIT_MENU.
C21_EmptyExtractionToManualEntry ==
    [][\A u \in Users :
          (/\ last'.u = u
           /\ last'.event \in {"text", "resume"}
           /\ last'.from \in {WAIT_FOR_TEXT, WAIT_FOR_IMAGE}
           /\ last'.text # None) =>
             IF extract_votes(last'.text) = EmptyDict
             THEN conversations'[u] = WAIT_FOR_TEXT /\ View(u)' = View(u)
             ELSE conversations'[u] = EDIT_MENU]_vars

\* C21 witness: the text recognised in a photo gave no votes, the
\* conversation is in WAIT_FOR_TEXT and the tally is the one /start made.
C21_Witness ==
    /\ last.event = "resume" /\ last.from = WAIT_FOR_IMAGE
    /\ last.text = << <<"?","?","?">> >>
    /\ conversations[last.u] = WAIT_FOR_TEXT
    /\ HasSession(last.u)
    /\ DOMAIN Tally(last.u) = Range(DEFAULT_CANDIDATES)

\* C22: in every reachable state in which a user's conversation is in a state
\* other than EDIT_SINGLE_CANDIDATE (and has not ended), the user's session
\* holds no candidate_to_edit.
C22_EditTargetTransient ==
    \A u \in Users :
       (HasSession(u) /\ conversations[u] \notin {EDIT_SINGLE_CANDIDATE, END}) =>
          user_sessions[u].candidate_to_edit = <<>>

====
